---- MODULE Spec2Model ----
(***************************************************************************)
(* Iterated prisoner's dilemma automaton: Agent (agent.py), Environment    *)
(* (environment.py) and Tournament (tournament.py).                        *)
(*                                                                         *)
(* Python lists and numpy arrays are sequences; a 2 x k numpy matrix is a  *)
(* pair of rows.  A Python string is a sequence of one-character strings.  *)
(* A call that may raise yields an outcome record [exc, val]: exc is       *)
(* "none" for a normal return (val is the returned value) or the name of   *)
(* the exception raised.                                                   *)
(***************************************************************************)
EXTENDS Integers, Sequences, FiniteSets, TLC

\* ------------------------------------------------------------------ bounds
\* longest bit sequence handed to Agent(id)
MaxCodeLen == 5
\* longest history handed to a stand-alone decide call
MaxHist == 3
\* most older moves prepended to both histories
MaxOlder == 2
\* largest configured game length
MaxRounds == 3
\* largest poisson (jitter) argument
MaxPoisson == 1
\* largest number of competitors of a tournament
MaxCompetitors == 9

\* ------------------------------------------------------- Python / numpy
Ok(v) == [exc |-> "none", val |-> v]
Raise(e) == [exc |-> e, val |-> 0]

\* poisson: int = None
NoneVal == [isNone |-> TRUE, val |-> 0]
Some(k) == [isNone |-> FALSE, val |-> k]

\* min(a, b)
min(a, b) == IF a <= b THEN a ELSE b

\* abs(x)
abs(x) == IF x < 0 THEN -x ELSE x

\* x ** n for an integer n >= 0
RECURSIVE pow(_, _)
pow(x, n) == IF n = 0 THEN 1 ELSE x * pow(x, n - 1)

\* s[-k:] for k >= 0: -0 is 0, so k = 0 keeps the whole sequence; a k beyond
\* the length is clipped to the start
py_last(s, k) ==
    IF k = 0 \/ k >= Len(s) THEN s ELSE SubSeq(s, Len(s) - k + 1, Len(s))

\* np.stack([r0, r1]): the rows must have the same shape
np_stack(r0, r1) ==
    IF Len(r0) # Len(r1) THEN Raise("ValueError") ELSE Ok(<<r0, r1>>)

\* a * b for a of shape (2, L) and b of shape (2, K), with numpy broadcasting:
\* equal widths multiply element-wise, a width of 1 is stretched to the other
\* width (also to width 0), anything else cannot be broadcast
np_multiply(a, b) ==
    LET L == Len(a[1])
        K == Len(b[1])
    IN  IF L = K
          THEN Ok([r \in 1..2 |-> [j \in 1..L |-> a[r][j] * b[r][j]]])
        ELSE IF L = 1
          THEN Ok([r \in 1..2 |-> [j \in 1..K |-> a[r][1] * b[r][j]]])
        ELSE IF K = 1
          THEN Ok([r \in 1..2 |-> [j \in 1..L |-> a[r][j] * b[r][1]]])
        ELSE Raise("ValueError")

\* the builtin sum(x) of a (2, W) array: 0 + x[0] + x[1], an array of shape (W,)
py_sum(x) == [j \in 1..Len(x[1]) |-> 0 + x[1][j] + x[2][j]]

\* a.reshape((rows, cols)) of a flat array of rows*cols entries, row-major
reshape(a, rows, cols) ==
    [r \in 1..rows |-> [c \in 1..cols |-> a[(r - 1) * cols + c]]]

\* ------------------------------------------------------------ agent.py
\* np.heaviside(x, 1)*2 - 1, element-wise
heaviside(x) == [j \in 1..Len(x) |-> IF x[j] >= 0 THEN 1 ELSE -1]

\* Agent.get_id_matrix: (id[0], id[1:].reshape((2, (len(id)-1)//2)))
\* (faulty variant: the matrix filled column by column)
get_id_matrix_colmajor(id) ==
    LET m == (Len(id) - 1) \div 2
    IN  <<id[1], [r \in 1..2 |-> [c \in 1..m |-> Tail(id)[(c - 1) * 2 + r]]]>>
get_id_matrix(id) ==
    <<id[1], reshape(Tail(id), 2, (Len(id) - 1) \div 2)>>

\* Agent.__init__
Agent(id) ==
    IF Len(id) % 2 = 0
      THEN [exc |-> "ValueError", id |-> id, start |-> 0,
            id_matrix |-> <<<<>>, <<>>>>, dim2 |-> 0]
      ELSE [exc |-> "none", id |-> id, start |-> get_id_matrix(id)[1],
            id_matrix |-> get_id_matrix(id)[2],
            dim2 |-> Len(get_id_matrix(id)[2][1])]

\* the else branch of Agent.decide (lines 111-114)
decide_window(self, history_self, history_other) ==
    LET length == min(Len(history_self), self.dim2)
        history == np_stack(py_last(history_other, length),
                            py_last(history_self, length))
        matrix == [r \in 1..2 |-> py_last(self.id_matrix[r], length)]
    IN  IF history.exc # "none" THEN Raise(history.exc)
        ELSE LET product == np_multiply(history.val, matrix)
             IN  IF product.exc # "none" THEN Raise(product.exc)
                 ELSE LET h == heaviside(py_sum(product.val))
                      IN  IF Len(h) = 0 THEN Raise("IndexError") ELSE Ok(h[1])

\* Agent.decide
\* (faulty variant: the first round told by the own history)
decide_tests_self_history(self, history_self, history_other) ==
    IF Len(history_self) = 0
      THEN Ok(pow(-1, self.start))
      ELSE decide_window(self, history_self, history_other)
\* (faulty variant: the opening move inverted)
decide_opening_flipped(self, history_self, history_other) ==
    IF Len(history_other) = 0
      THEN Ok(pow(-1, 1 - self.start))
      ELSE decide_window(self, history_self, history_other)
decide(self, history_self, history_other) ==
    IF Len(history_other) = 0
      THEN Ok(pow(-1, self.start))
      ELSE decide_window(self, history_self, history_other)

\* -------------------------------------------------------- environment.py
\* Environment.__init__
Environment(len, poisson) == [length |-> len, poisson |-> poisson]

\* the payoff function handed to Environment: cooperate is 1, defect is -1
payoff(a, b) ==
    IF a = 1 /\ b = 1 THEN <<3, 3>>
    ELSE IF a = -1 /\ b = -1 THEN <<1, 1>>
    ELSE IF a = 1 /\ b = -1 THEN <<0, 5>>
    ELSE <<5, 0>>

\* --------------------------------------------------------- tournament.py
\* np.log2(x).__ceil__(): the least k with 2**k >= x
RECURSIVE log2_ceil_from(_, _)
log2_ceil_from(x, k) == IF pow(2, k) >= x THEN k ELSE log2_ceil_from(x, k + 1)
log2_ceil(x) == log2_ceil_from(x, 0)

Digits == <<"0", "1", "2", "3", "4", "5", "6", "7", "8", "9">>

\* the digits of n >= 0 in the given base, most significant first
RECURSIVE numeral(_, _)
numeral(n, base) ==
    IF n < base THEN <<Digits[n + 1]>>
    ELSE numeral(n \div base, base) \o <<Digits[(n % base) + 1]>>

\* format(n, f"0{width}b"): binary, zero-padded on the left to at least width
format_b(n, width) ==
    LET d == numeral(n, 2)
    IN  IF Len(d) >= width THEN d
        ELSE [j \in 1..(width - Len(d)) |-> "0"] \o d

\* str(n) for an int n >= 0
str(n) == numeral(n, 10)

\* int(c) for a one-digit string
int_of_char(c) == CHOOSE d \in 0..9 : Digits[d + 1] = c

\* np.array(list(binary)).astype(int)
astype_int(binary) == [j \in 1..Len(binary) |-> int_of_char(binary[j])]

\* Tournament.__init__
\* (faulty variant: the poisson argument handed on to the environment)
Tournament_threads_poisson(competitors, len, poisson) ==
    [competitors |-> competitors, length |-> len,
     environment |-> Environment(len, poisson)]
Tournament(competitors, len, poisson) ==
    [competitors |-> competitors, length |-> len,
     environment |-> Environment(len, NoneVal)]

\* the width chosen by Tournament.convert_to_id (lines 55-57)
\* (faulty variant: an even width left as it is)
leading_uncorrected(self) == log2_ceil(self.competitors)
leading(self) ==
    LET l == log2_ceil(self.competitors)
    IN  IF l % 2 = 0 THEN l + 1 ELSE l

\* Tournament.convert_to_id: (id array, binary string)
convert_to_id(self, n) ==
    LET binary == format_b(n, leading(self))
    IN  <<astype_int(binary), binary>>

\* np.array(scores): a list of [int, int, str, str, int, int] rows becomes an
\* array of strings, every int cell rendered by str
np_array(rows) ==
    [k \in 1..Len(rows) |->
        <<str(rows[k][1]), str(rows[k][2]), rows[k][3], rows[k][4],
          str(rows[k][5]), str(rows[k][6])>>]

\* ------------------------------------------------------------------ state
VARIABLES
    pc,             \* position of the running call
    exc,            \* "none", or the exception that ended the call
    id,             \* argument of Agent(id)
    agent,          \* the Agent constructed from id
    history_self,   \* arguments of a stand-alone agent.decide call
    history_other,
    decision,       \* its outcome
    env,            \* self of Environment.iterate
    actor_a,        \* locals of Environment.iterate
    actor_b,
    history_a,
    history_b,
    length,
    total_a,
    total_b,
    i,
    decision_a,
    decision_b,
    poisson_arg,    \* the poisson argument given to Tournament(...)
    tournament,     \* self of Tournament.compete
    n_a,            \* locals of Tournament.compete
    n_b,
    string_a,
    string_b,
    scores,
    result,         \* the array compete returns
    prev            \* outcome of the tournament run before this one, if any

agent_vars == <<id, agent, history_self, history_other, decision>>
match_vars == <<env, actor_a, actor_b, history_a, history_b, length,
                total_a, total_b, i, decision_a, decision_b>>
tournament_vars == <<poisson_arg, tournament, n_a, n_b, string_a, string_b,
                     scores, result, prev>>
vars == <<pc, exc, agent_vars, match_vars, tournament_vars>>

Bits(n) == [1..n -> {0, 1}]
BitSeqs(n) == UNION {Bits(k) : k \in 0..n}
OddBitSeqs(n) == {b \in BitSeqs(n) : Len(b) % 2 = 1}
Moves(n) == [1..n -> {1, -1}]
Histories(n) == UNION {Moves(k) : k \in 0..n}
PoissonArgs == {NoneVal} \cup {Some(k) : k \in 0..MaxPoisson}

NoAgent == [exc |-> "unset", id |-> <<>>, start |-> 0,
            id_matrix |-> <<<<>>, <<>>>>, dim2 |-> 0]
NoPrev == [set |-> FALSE, exc |-> "none", result |-> <<>>, poisson |-> NoneVal]

AgentIdle ==
    /\ id = <<>> /\ agent = NoAgent
    /\ history_self = <<>> /\ history_other = <<>>
    /\ decision = Ok(0)
MatchIdle ==
    /\ actor_a = NoAgent /\ actor_b = NoAgent
    /\ history_a = <<>> /\ history_b = <<>>
    /\ length = 0 /\ total_a = 0 /\ total_b = 0 /\ i = 0
    /\ decision_a = 0 /\ decision_b = 0
TournamentIdle ==
    /\ poisson_arg = NoneVal
    /\ tournament = Tournament(1, 0, NoneVal)
    /\ n_a = 0 /\ n_b = 0 /\ string_a = <<>> /\ string_b = <<>>
    /\ scores = <<>> /\ result = <<>> /\ prev = NoPrev

\* ------------------------------------------------- a stand-alone Agent
\* the caller's inputs: any bit sequence, any two histories
InitAgent ==
    /\ pc = "new" /\ exc = "none"
    /\ id \in BitSeqs(MaxCodeLen)
    /\ history_self \in Histories(MaxHist)
    /\ history_other \in Histories(MaxHist)
    /\ agent = NoAgent /\ decision = Ok(0)
    /\ env = Environment(0, NoneVal)
    /\ MatchIdle /\ TournamentIdle

\* agent = Agent(id)
construct ==
    /\ pc = "new"
    /\ agent' = Agent(id)
    /\ exc' = Agent(id).exc
    /\ pc' = IF Agent(id).exc = "none" THEN "constructed" ELSE "raised"
    /\ UNCHANGED <<id, history_self, history_other, decision,
                   match_vars, tournament_vars>>

\* decision = agent.decide(history_self, history_other)
call_decide ==
    /\ pc = "constructed"
    /\ decision' = decide(agent, history_self, history_other)
    /\ exc' = decide(agent, history_self, history_other).exc
    /\ pc' = IF decide(agent, history_self, history_other).exc = "none"
               THEN "decided" ELSE "raised"
    /\ UNCHANGED <<id, agent, history_self, history_other,
                   match_vars, tournament_vars>>

NextAgent == construct \/ call_decide
SpecAgent == InitAgent /\ [][NextAgent]_vars

\* --------------------------------------------- Environment.iterate
\* lines 43-50: fresh histories and totals, and the effective game length.
\* With poisson set, np.random.randint(low, high, 1) raises ValueError when
\* low >= high and otherwise draws an array of one integer; range() of that
\* one-element array raises TypeError or uses its element, by numpy version.
iterate_begin ==
    /\ pc = "iterate"
    /\ history_a' = <<>> /\ history_b' = <<>>
    /\ total_a' = 0 /\ total_b' = 0 /\ i' = 0
    /\ IF env.poisson # NoneVal
         THEN LET low == env.length - env.poisson.val
                  high == env.length + env.poisson.val
              IN  IF low >= high
                    THEN /\ length' = length
                         /\ exc' = "ValueError" /\ pc' = "raised"
                    ELSE \/ \E r \in low..(high - 1) :
                              /\ length' = abs(r)
                              /\ exc' = exc /\ pc' = "loop"
                         \/ \E r \in low..(high - 1) :
                              /\ length' = abs(r)
                              /\ exc' = "TypeError" /\ pc' = "raised"
         ELSE /\ length' = env.length
              /\ exc' = exc /\ pc' = "loop"
    /\ UNCHANGED <<env, actor_a, actor_b, decision_a, decision_b,
                   agent_vars, tournament_vars>>

\* line 51-52: the loop goes on; decision_a = actor_a.decide(history_a, history_b)
round_decide_a ==
    /\ pc = "loop" /\ i < length
    /\ LET d == decide(actor_a, history_a, history_b)
       IN  /\ decision_a' = d.val
           /\ exc' = d.exc
           /\ pc' = IF d.exc = "none" THEN "decide_b" ELSE "raised"
    /\ UNCHANGED <<env, actor_a, actor_b, history_a, history_b, length,
                   total_a, total_b, i, decision_b,
                   agent_vars, tournament_vars>>

\* line 53: decision_b = actor_b.decide(history_b, history_a)
\* (faulty variant: B is handed the histories in A's order)
round_decide_b_unmirrored ==
    /\ pc = "decide_b"
    /\ LET d == decide(actor_b, history_a, history_b)
       IN  /\ decision_b' = d.val
           /\ exc' = d.exc
           /\ pc' = IF d.exc = "none" THEN "append" ELSE "raised"
    /\ UNCHANGED <<env, actor_a, actor_b, history_a, history_b, length,
                   total_a, total_b, i, decision_a,
                   agent_vars, tournament_vars>>
round_decide_b ==
    /\ pc = "decide_b"
    /\ LET d == decide(actor_b, history_b, history_a)
       IN  /\ decision_b' = d.val
           /\ exc' = d.exc
           /\ pc' = IF d.exc = "none" THEN "append" ELSE "raised"
    /\ UNCHANGED <<env, actor_a, actor_b, history_a, history_b, length,
                   total_a, total_b, i, decision_a,
                   agent_vars, tournament_vars>>

\* lines 54-55: both decisions are appended
round_append ==
    /\ pc = "append"
    /\ history_a' = Append(history_a, decision_a)
    /\ history_b' = Append(history_b, decision_b)
    /\ pc' = "payoff"
    /\ UNCHANGED <<exc, env, actor_a, actor_b, length, total_a, total_b, i,
                   decision_a, decision_b, agent_vars, tournament_vars>>

\* lines 57-59: the payoff of the round is added; the loop advances
round_payoff ==
    /\ pc = "payoff"
    /\ total_a' = total_a + payoff(decision_a, decision_b)[1]
    /\ total_b' = total_b + payoff(decision_a, decision_b)[2]
    /\ i' = i + 1
    /\ pc' = "loop"
    /\ UNCHANGED <<exc, env, actor_a, actor_b, history_a, history_b, length,
                   decision_a, decision_b, agent_vars, tournament_vars>>

\* line 61: the loop is over; return total_a, total_b, history_a, history_b
iterate_return ==
    /\ pc = "loop" /\ i >= length
    /\ pc' = "returned"
    /\ UNCHANGED <<exc, match_vars, agent_vars, tournament_vars>>

iterate == \/ iterate_begin
           \/ round_decide_a
           \/ round_decide_b
           \/ round_append
           \/ round_payoff
           \/ iterate_return

\* a stand-alone match: Environment(payoff, length, poisson).iterate(a, b)
\* for two constructed agents
InitMatch ==
    /\ pc = "iterate" /\ exc = "none"
    /\ \E len \in 0..MaxRounds, p \in PoissonArgs : env = Environment(len, p)
    /\ \E ia \in OddBitSeqs(MaxCodeLen) : actor_a = Agent(ia)
    /\ \E ib \in OddBitSeqs(MaxCodeLen) : actor_b = Agent(ib)
    /\ history_a = <<>> /\ history_b = <<>>
    /\ length = 0 /\ total_a = 0 /\ total_b = 0 /\ i = 0
    /\ decision_a = 0 /\ decision_b = 0
    /\ AgentIdle /\ TournamentIdle

SpecMatch == InitMatch /\ [][iterate]_vars

\* --------------------------------------------- Tournament.compete
\* the caller's inputs: Tournament(competitors, length, payoff, poisson)
Init ==
    /\ pc = "compete" /\ exc = "none"
    /\ poisson_arg \in PoissonArgs
    /\ \E c \in 1..MaxCompetitors, len \in 0..MaxRounds :
          tournament = Tournament(c, len, poisson_arg)
    /\ env = tournament.environment
    /\ n_a = 0 /\ n_b = 0 /\ string_a = <<>> /\ string_b = <<>>
    /\ scores = <<>> /\ result = <<>> /\ prev = NoPrev
    /\ MatchIdle /\ AgentIdle

\* line 63: scores = []
compete_begin ==
    /\ pc = "compete"
    /\ scores' = <<>>
    /\ n_a' = 0
    /\ pc' = "outer"
    /\ UNCHANGED <<exc, poisson_arg, tournament, n_b, string_a, string_b,
                   result, prev, match_vars, agent_vars>>

\* lines 64-66: the next n_a; its id and string; a = Agent(id_a)
outer_next ==
    /\ pc = "outer" /\ n_a < tournament.competitors
    /\ LET c == convert_to_id(tournament, n_a)
       IN  /\ string_a' = c[2]
           /\ actor_a' = Agent(c[1])
           /\ exc' = Agent(c[1]).exc
           /\ pc' = IF Agent(c[1]).exc = "none" THEN "inner" ELSE "raised"
    /\ n_b' = 0
    /\ UNCHANGED <<poisson_arg, tournament, n_a, string_b, scores, result,
                   prev, env, actor_b, history_a, history_b, length, total_a,
                   total_b, i, decision_a, decision_b, agent_vars>>

\* lines 67-70: the next n_b; its id and string; b = Agent(id_b); the call
\* self.environment.iterate(a, b)
inner_next ==
    /\ pc = "inner" /\ n_b < tournament.competitors
    /\ LET c == convert_to_id(tournament, n_b)
       IN  /\ string_b' = c[2]
           /\ actor_b' = Agent(c[1])
           /\ exc' = Agent(c[1]).exc
           /\ pc' = IF Agent(c[1]).exc = "none" THEN "iterate" ELSE "raised"
    /\ env' = tournament.environment
    /\ UNCHANGED <<poisson_arg, tournament, n_a, n_b, string_a, scores,
                   result, prev, actor_a, history_a, history_b, length,
                   total_a, total_b, i, decision_a, decision_b, agent_vars>>

\* lines 70-71: iterate returned; its totals are appended to scores
record ==
    /\ pc = "returned"
    /\ scores' = Append(scores,
                        <<n_a, n_b, string_a, string_b, total_a, total_b>>)
    /\ n_b' = n_b + 1
    /\ pc' = "inner"
    /\ UNCHANGED <<exc, poisson_arg, tournament, n_a, string_a, string_b,
                   result, prev, match_vars, agent_vars>>

\* line 67: the inner loop is over
inner_done ==
    /\ pc = "inner" /\ n_b >= tournament.competitors
    /\ n_a' = n_a + 1
    /\ pc' = "outer"
    /\ UNCHANGED <<exc, poisson_arg, tournament, n_b, string_a, string_b,
                   scores, result, prev, match_vars, agent_vars>>

\* lines 72-73: the outer loop is over; return np.array(scores)
compete_return ==
    /\ pc = "outer" /\ n_a >= tournament.competitors
    /\ result' = np_array(scores)
    /\ pc' = "done"
    /\ UNCHANGED <<exc, poisson_arg, tournament, n_a, n_b, string_a,
                   string_b, scores, prev, match_vars, agent_vars>>

\* the caller keeps the outcome and runs a second tournament that differs
\* from the first in its poisson argument only
compete_again ==
    /\ pc \in {"done", "raised"} /\ ~prev.set
    /\ prev' = [set |-> TRUE, exc |-> exc, result |-> result,
                poisson |-> poisson_arg]
    /\ \E p \in PoissonArgs \ {poisson_arg} :
          /\ poisson_arg' = p
          /\ tournament' = Tournament(tournament.competitors,
                                      tournament.length, p)
    /\ env' = tournament'.environment
    /\ pc' = "compete" /\ exc' = "none"
    /\ n_a' = 0 /\ n_b' = 0 /\ string_a' = <<>> /\ string_b' = <<>>
    /\ scores' = <<>> /\ result' = <<>>
    /\ actor_a' = NoAgent /\ actor_b' = NoAgent
    /\ history_a' = <<>> /\ history_b' = <<>>
    /\ length' = 0 /\ total_a' = 0 /\ total_b' = 0 /\ i' = 0
    /\ decision_a' = 0 /\ decision_b' = 0
    /\ UNCHANGED agent_vars

compete == \/ compete_begin
           \/ outer_next
           \/ inner_next
           \/ record
           \/ inner_done
           \/ compete_return

Next == compete \/ iterate \/ compete_again

Spec == Init /\ [][Next]_vars

\* ================================================================ claims
RECURSIVE SumTo(_, _)
SumTo(f, n) == IF n = 0 THEN 0 ELSE f[n] + SumTo(f, n - 1)

\* agent.decide(history_self, history_other) was called on a constructed agent
DecideCalled == agent.exc = "none" /\ pc \in {"decided", "raised"}

\* the sum of all entries of the product of the 2 x L window of the two
\* histories with the last L columns of the decision matrix
WholeWindowSum ==
    LET m == agent.dim2
        n == Len(history_self)
        L == min(n, m)
        terms == [j \in 1..L |->
                    history_other[n - L + j] * agent.id_matrix[1][m - L + j]
                  + history_self[n - L + j] * agent.id_matrix[2][m - L + j]]
    IN  SumTo(terms, L)

\* C1: on equal-length non-empty histories decide returns cooperate (1) when
\* the sum of all entries of the windowed product is >= 0 and defect (-1) when
\* it is < 0, for every odd code length, matrix width 0 included.
C1_SignOfWholeSum ==
    (DecideCalled /\ Len(history_self) = Len(history_other)
                  /\ Len(history_self) >= 1)
    => decision = Ok(IF WholeWindowSum >= 0 THEN 1 ELSE -1)

\* C2: with poisson unset iterate returns normally and both histories hold
\* exactly env.length moves.
C2_ExactlyRoundCount ==
    (env.poisson = NoneVal /\ pc \in {"returned", "raised"})
    => /\ pc = "returned"
       /\ Len(history_a) = env.length
       /\ Len(history_b) = env.length

\* C3: for a game length >= 1 compete returns N*N rows, row k (0-based)
\* recording the pair (k div N, k mod N).
C3_RowMajorTable ==
    (tournament.length >= 1 /\ pc \in {"done", "raised"})
    => /\ pc = "done"
       /\ Len(result) = tournament.competitors * tournament.competitors
       /\ \A k \in 0..(Len(result) - 1) :
            /\ result[k + 1][1] = str(k \div tournament.competitors)
            /\ result[k + 1][2] = str(k % tournament.competitors)

\* C4: with an empty other-history decide returns cooperate (1) iff the first
\* bit of the code is 0 and defect (-1) iff it is 1, whatever the matrix and
\* the self-history are.
C4_OpeningMoveIsBias ==
    (DecideCalled /\ history_other = <<>>)
    => /\ decision.exc = "none"
       /\ (decision.val = 1 <=> id[1] = 0)
       /\ (decision.val = -1 <=> id[1] = 1)

C4_Witness ==
    /\ pc = "decided" /\ history_other = <<>>
    /\ Len(history_self) = 2 /\ Len(id) = 5 /\ id[1] = 1
    /\ decision.val = -1

\* the number a cell of the returned array shows
CellInt(c) == CHOOSE n \in 0..(5 * (MaxRounds + 1) + MaxCompetitors) : str(n) = c
RowRead(r) ==
    <<CellInt(r[1]), CellInt(r[2]), r[3], r[4], CellInt(r[5]), CellInt(r[6])>>

C6_OlderHistoryIgnored ==
    (DecideCalled /\ Len(history_self) = Len(history_other)
                  /\ Len(history_self) >= 1
                  /\ Len(history_self) >= agent.dim2)
    => \A k \in 1..MaxOlder : \A pa \in Moves(k), pb \in Moves(k) :
          decide(agent, pa \o history_self, pb \o history_other) = decision

\* C7: Agent(id) succeeds for an odd-length id, with start the first bit and
\* a 2 x (b-1)/2 matrix holding the first half of the remaining bits in row 0
\* and the second half in row 1; for an even-length id it raises and there is
\* no agent.
C7_DecodeShape ==
    pc # "new" =>
      IF Len(id) % 2 = 1
        THEN LET m == (Len(id) - 1) \div 2
             IN  /\ agent.exc = "none"
                 /\ agent.start = id[1]
                 /\ Len(agent.id_matrix) = 2
                 /\ agent.dim2 = m
                 /\ \A r \in 1..2 : Len(agent.id_matrix[r]) = m
                 /\ \A c \in 1..m : /\ agent.id_matrix[1][c] = id[1 + c]
                                    /\ agent.id_matrix[2][c] = id[1 + m + c]
        ELSE /\ pc = "raised" /\ exc = "ValueError"
             /\ agent.exc = "ValueError"

C7_Witness ==
    /\ pc = "constructed" /\ id = <<1, 0, 1, 1, 0>>
    /\ agent.id_matrix = << <<0, 1>>, <<1, 0>> >>

\* the number a string of binary digits denotes
RECURSIVE BinValue(_)
BinValue(b) ==
    IF b = <<>> THEN 0
    ELSE 2 * BinValue(SubSeq(b, 1, Len(b) - 1))
         + (IF b[Len(b)] = "1" THEN 1 ELSE 0)

CeilLog2N ==
    CHOOSE k \in 0..tournament.competitors :
        /\ pow(2, k) >= tournament.competitors
        /\ \A j \in 0..(k - 1) : pow(2, j) < tournament.competitors

OddWidth == IF CeilLog2N % 2 = 0 THEN CeilLog2N + 1 ELSE CeilLog2N

\* C8: every string convert_to_id produces has the odd length b (ceil(log2 N),
\* plus one when that is even) and reads as n in base 2; no Agent built in
\* compete raises the even-length error; distinct indexes get distinct codes.
C8_CodesOddAndExact ==
    /\ OddWidth % 2 = 1
    /\ pc \in {"inner", "iterate", "loop", "decide_b", "append", "payoff",
               "returned"}
         => /\ Len(string_a) = OddWidth
            /\ BinValue(string_a) = n_a
            /\ \A j \in 1..Len(string_a) : string_a[j] \in {"0", "1"}
            /\ actor_a.id = [j \in 1..OddWidth |->
                                IF string_a[j] = "1" THEN 1 ELSE 0]
    /\ pc \in {"iterate", "loop", "decide_b", "append", "payoff", "returned"}
         => /\ Len(string_b) = OddWidth
            /\ BinValue(string_b) = n_b
            /\ \A j \in 1..Len(string_b) : string_b[j] \in {"0", "1"}
            /\ actor_b.id = [j \in 1..OddWidth |->
                                IF string_b[j] = "1" THEN 1 ELSE 0]
            /\ (n_a # n_b => string_a # string_b)
    /\ actor_a.exc # "ValueError" /\ actor_b.exc # "ValueError"

C8_Witness ==
    /\ pc = "returned" /\ tournament.competitors = 3
    /\ n_a = 2 /\ n_b = 1
    /\ string_a = <<"0", "1", "0">> /\ string_b = <<"0", "0", "1">>

MatchRunning == pc \in {"loop", "decide_b", "append", "payoff", "returned"}

Front(h) == SubSeq(h, 1, Len(h) - 1)

\* C10: in round i+1 both decisions are taken on the histories of the first i
\* moves, A with (own, other) = (history_a, history_b) and B mirrored, before
\* either history grows; after the round both histories hold i+1 moves.
C10_SimultaneousDecisions ==
    /\ pc = "loop" => Len(history_a) = i /\ Len(history_b) = i
    /\ pc = "decide_b"
         => /\ Len(history_a) = i /\ Len(history_b) = i
            /\ decide(actor_a, history_a, history_b) = Ok(decision_a)
    /\ pc = "append"
         => /\ Len(history_a) = i /\ Len(history_b) = i
            /\ decide(actor_a, history_a, history_b) = Ok(decision_a)
            /\ decide(actor_b, history_b, history_a) = Ok(decision_b)
    /\ pc = "payoff"
         => /\ Len(history_a) = i + 1 /\ Len(history_b) = i + 1
            /\ history_a[i + 1] = decision_a /\ history_b[i + 1] = decision_b
            /\ decide(actor_a, Front(history_a), Front(history_b))
                 = Ok(decision_a)
            /\ decide(actor_b, Front(history_b), Front(history_a))
                 = Ok(decision_b)

C10_Witness ==
    /\ pc = "payoff" /\ i = 2
    /\ Len(actor_a.id) = 3 /\ Len(actor_b.id) = 3
    /\ decision_a # decision_b
    /\ history_a[1] # history_a[2]

====
